---------------------------- MODULE Spec2Model ----------------------------
(***************************************************************************)
(* A model of the APP score calculator (src/app_core.py): the candidate    *)
(* matcher and the enrichment pass, the APP scoring engine, and the        *)
(* per-author metadata collection loop.                                    *)
(*                                                                         *)
(* Conventions.  A Python string is a sequence of one-character strings.   *)
(* A pandas cell that may be missing is a record [kind, v] with kind       *)
(* "None" (the Python object None, kept by an object column), "NaN" (the   *)
(* float nan, the missing marker of a float64 column) or "num".            *)
(* Percentiles and CiteScore values are carried in tenths (92.0 is 920),   *)
(* author credit as an exact fraction, contributions and totals in         *)
(* hundredths (1.68 is 168).                                               *)
(***************************************************************************)
EXTENDS Integers, Sequences, FiniteSets, TLC

VARIABLES
    \* enrichment: load_citescore_table's result, build_cs_by_source's result,
    \* the author batch and enrich_with_citescore_sourceid_asjc's loop
    cs_table, has_source_col, from_print, cs_by_source, df_articles, e_pc, e_idx,
    picks, out_pct, out_val, enriched,
    \* scoring: build_app_sheet's arguments, the clock and its result
    s_articles, fixed_years, cy, s_pc, df_app, app_summary,
    \* collection: collect_author_articles' loop and the collaborator's log
    c_pc, eids, c_i, recs, calls, warned,
    \* one call of a function of the module on its arguments: the function's
    \* position, its argument and what it returned
    f_pc, f_arg, f_ret,
    \* compute_and_build: its position, its argument auids, the authors still to process, the
    \* enriched frames gathered so far, the frames its callees made and the
    \* object the df of build_cs_by_source stands for
    r_pc, auids, r_left, all_rows, r_objs, r_df

vars_enrich == <<cs_table, has_source_col, from_print, cs_by_source, df_articles, e_pc, e_idx,
                 picks, out_pct, out_val, enriched>>
vars_score == <<s_articles, fixed_years, cy, s_pc, df_app, app_summary>>
vars_collect == <<c_pc, eids, c_i, recs, calls, warned>>
vars_call == <<f_pc, f_arg, f_ret>>
vars_run == <<r_pc, auids, r_left, all_rows, r_objs, r_df>>
vars == <<vars_enrich, vars_score, vars_collect, vars_call, vars_run>>

-----------------------------------------------------------------------------
(* Bounds of the model *)

MaxRefRows == 2

MaxBatch == 2

MaxPubs == 3

MaxEids == 4

MaxPct == 1000

MaxAuthorCount == 4

-----------------------------------------------------------------------------
(* Values *)

None == [kind |-> "None", v |-> 0]

NaN == [kind |-> "NaN", v |-> 0]

Num(x) == [kind |-> "num", v |-> x]

\* pandas isna / notna on a cell
IsNa(c) == c.kind # "num"

Digits == {"0", "1", "2", "3", "4", "5", "6", "7", "8", "9"}

DigitVal(c) ==
    CASE c = "0" -> 0 [] c = "1" -> 1 [] c = "2" -> 2 [] c = "3" -> 3 [] c = "4" -> 4
      [] c = "5" -> 5 [] c = "6" -> 6 [] c = "7" -> 7 [] c = "8" -> 8 [] c = "9" -> 9

\* str.upper() on one character of the alphabet the model uses
Upper(c) == CASE c = "x" -> "X" [] c = "a" -> "A" [] c = "r" -> "R" [] c = "e" -> "E"
              [] c = "n" -> "N" [] OTHER -> c

\* str.lower() on one character of the alphabet the model uses
Lower(c) == CASE c = "X" -> "x" [] c = "A" -> "a" [] c = "R" -> "r" [] c = "E" -> "e"
              [] c = "N" -> "n" [] c = "P" -> "p" [] c = "I" -> "i" [] c = "S" -> "s"
              [] c = "C" -> "c" [] c = "D" -> "d" [] c = "J" -> "j" [] c = "T" -> "t"
              [] OTHER -> c

\* Code points, for Python's string ordering
Ord(c) ==
    CASE c \in Digits -> 48 + DigitVal(c)
      [] c = " " -> 32 [] c = "," -> 44 [] c = "-" -> 45 [] c = "/" -> 47
      [] c = "A" -> 65 [] c = "E" -> 69 [] c = "N" -> 78 [] c = "R" -> 82 [] c = "X" -> 88
      [] c = "a" -> 97 [] c = "e" -> 101 [] c = "n" -> 110 [] c = "r" -> 114
      [] c = "x" -> 120 [] OTHER -> 63

UpperStr(s) == [i \in 1..Len(s) |-> Upper(s[i])]

LowerStr(s) == [i \in 1..Len(s) |-> Lower(s[i])]

RECURSIVE FilterStr(_, _)
FilterStr(keep, s) ==
    IF s = <<>> THEN <<>>
    ELSE IF Head(s) \in keep THEN <<Head(s)>> \o FilterStr(keep, Tail(s))
    ELSE FilterStr(keep, Tail(s))

\* _s on a string cell: None becomes the empty string
_s(x) == IF x.kind = "None" THEN <<>> ELSE x.s

Str(s) == [kind |-> "str", s |-> s]

NoStr == [kind |-> "None", s |-> <<>>]

\* Series.astype(str) on a cell: None becomes the text "None"
AsTypeStr(x) == IF x.kind = "None" THEN <<"N", "o", "n", "e">> ELSE x.s

IsSpace(c) == c = " "

RECURSIVE LStrip(_)
LStrip(s) == IF s # <<>> /\ IsSpace(Head(s)) THEN LStrip(Tail(s)) ELSE s

RECURSIVE RStrip(_)
RStrip(s) ==
    IF s # <<>> /\ IsSpace(s[Len(s)]) THEN RStrip(SubSeq(s, 1, Len(s) - 1)) ELSE s

\* str.strip()
Strip(s) == RStrip(LStrip(s))

\* _norm_issn: upper-case, then drop every character but 0-9 and X
_norm_issn(s) == FilterStr(Digits \cup {"X"}, UpperStr(s))

\* re.split(r"[^0-9]", s): the maximal digit runs and the empty strings between
\* adjacent separators
RECURSIVE SplitNonDigit(_, _)
SplitNonDigit(s, cur) ==
    IF s = <<>> THEN <<cur>>
    ELSE IF Head(s) \in Digits THEN SplitNonDigit(Tail(s), Append(cur, Head(s)))
    ELSE <<cur>> \o SplitNonDigit(Tail(s), <<>>)

IsDigitTok(tok) == tok # <<>> /\ \A i \in 1..Len(tok) : tok[i] \in Digits

\* the token cut to its first four characters
AsjcTokHead(tok) == IF Len(tok) > 4 THEN SubSeq(tok, 1, 4) ELSE tok

\* the token _norm_asjc_codes adds for a digit token: its last four characters
\* when it is longer than four, the token itself otherwise
AsjcTok(tok) == IF Len(tok) > 4 THEN SubSeq(tok, Len(tok) - 3, Len(tok)) ELSE tok

\* the loop of _norm_asjc_codes over the tokens, and its closing filter
AsjcOfTokens(it) ==
    LET out == {AsjcTok(it[i]) : i \in {j \in 1..Len(it) : IsDigitTok(it[j])}}
    IN {t \in out : Len(t) = 4}

\* _norm_asjc_codes on a free-text string
_norm_asjc_codes(raw) == AsjcOfTokens(SplitNonDigit(raw, <<>>))

\* the arguments _norm_asjc_codes tells apart: None, a collection of tokens, or
\* anything else, read as text
NoCodes == [form |-> "none", text |-> <<>>, toks |-> <<>>]

CodeText(s) == [form |-> "text", text |-> s, toks |-> <<>>]

CodeList(toks) == [form |-> "list", text |-> <<>>, toks |-> toks]

\* _norm_asjc_codes on any of them
NormAsjcOf(raw) ==
    IF raw.form = "none" THEN {}
    ELSE IF raw.form = "list" THEN AsjcOfTokens(raw.toks)
    ELSE _norm_asjc_codes(raw.text)

\* the thresholds with a range check that rejects a percentile outside 0..100
QuartileRangeChecked(p) ==
    IF p < 0 \/ p > 1000 THEN "ValueError"
    ELSE IF p >= 900 THEN "QT"
    ELSE IF p >= 750 THEN "Q1"
    ELSE IF p >= 500 THEN "Q2"
    ELSE IF p >= 250 THEN "Q3"
    ELSE "Q4"

\* a value float() does not accept
NotFloat == [kind |-> "text", v |-> 0]

\* quartile_from_percentile: None gives "", float(nan) fails every comparison
QuartileOfNum(p) ==
    IF p >= 900 THEN "QT"
    ELSE IF p >= 750 THEN "Q1"
    ELSE IF p >= 500 THEN "Q2"
    ELSE IF p >= 250 THEN "Q3"
    ELSE "Q4"

quartile_from_percentile(p) ==
    IF p.kind = "None" THEN ""
    ELSE IF p.kind = "text" THEN ""
    ELSE IF p.kind = "NaN" THEN "Q4"
    ELSE QuartileOfNum(p.v)

-----------------------------------------------------------------------------
(* The candidate matcher *)

\* the value fillna puts in place of a missing percentile, in whole percent
FillPct == -1000000000

\* the sort key of cands["_pct"]: whole percent and tenths, compared in this order
PctKey(c) == IF IsNa(c) THEN <<FillPct, 0>> ELSE <<c.v \div 10, c.v % 10>>

PairGT(a, b) == a[1] > b[1] \/ (a[1] = b[1] /\ a[2] > b[2])

Overlap(article_asjc, row) == Cardinality(article_asjc \cap row.asjc_set)

\* the sort with its two keys exchanged: percentile first, overlap second
SortsBeforePctFirst(a, b) ==
    \/ PairGT(a._pct, b._pct)
    \/ a._pct = b._pct /\ a._overlap > b._overlap

\* row a sorts strictly before row b under sort_values(["_overlap","_pct"],
\* ascending=[False, False])
SortsBefore(a, b) ==
    \/ a._overlap > b._overlap
    \/ a._overlap = b._overlap /\ PairGT(a._pct, b._pct)

\* stable insertion of x behind every row that does not sort after it
RECURSIVE InsertStable(_, _)
InsertStable(x, sorted) ==
    IF sorted = <<>> THEN <<x>>
    ELSE IF SortsBefore(x, Head(sorted)) THEN <<x>> \o sorted
    ELSE <<Head(sorted)>> \o InsertStable(x, Tail(sorted))

RECURSIVE SortValues(_)
SortValues(rows) ==
    IF rows = <<>> THEN <<>>
    ELSE InsertStable(rows[Len(rows)], SortValues(SubSeq(rows, 1, Len(rows) - 1)))

\* _pick_best_candidate: <<percentile, score>> of the first row of the sorted frame
_pick_best_candidate(cands, article_asjc) ==
    IF cands = <<>> THEN <<None, None>>
    ELSE LET keyed == [i \in 1..Len(cands) |->
                          [row |-> cands[i],
                           _overlap |-> Overlap(article_asjc, cands[i]),
                           _pct |-> PctKey(cands[i].cs_percentile)]]
             top == SortValues(keyed)[1].row
         IN <<top.cs_percentile, top.citescore>>

-----------------------------------------------------------------------------
(* Frames *)

\* the rows of a frame at the positions in idx, in the frame's order
RECURSIVE RowsAt(_, _)
RowsAt(rows, idx) ==
    IF rows = <<>> THEN <<>>
    ELSE LET init == RowsAt(SubSeq(rows, 1, Len(rows) - 1), idx)
         IN IF Len(rows) \in idx THEN Append(init, rows[Len(rows)]) ELSE init

\* DataFrame.drop_duplicates(keep="first") on a frame given by its key rows: the
\* positions whose key no earlier position carries
FirstOfKey(keys) == {i \in 1..Len(keys) : \A j \in 1..(i - 1) : keys[j] # keys[i]}

\* the dtype pandas infers for a column of optional floats: float64 (missing is
\* nan) as soon as one cell is a float, object (missing stays None) otherwise
IsFloatCol(cells) == \E i \in 1..Len(cells) : cells[i].kind # "None"

InferCol(cells) ==
    IF IsFloatCol(cells)
    THEN [i \in 1..Len(cells) |-> IF cells[i].kind = "None" THEN NaN ELSE cells[i]]
    ELSE cells

-----------------------------------------------------------------------------
(* The reference index *)

\* what the journal-identifier resolution (SerialTitle) may answer for one
\* identifier: nothing, or a registry id
Answers == {NoStr, Str(<<"1", "1">>)}

\* fetch_source_id_for_issn, given the collaborator's answer: no call for an empty
\* identifier, and only an all-digit id is accepted
fetch_source_id_for_issn(issn, answer) ==
    IF _norm_issn(issn) = <<>> THEN NoStr
    ELSE IF answer.kind = "str" /\ IsDigitTok(answer.s) THEN answer
    ELSE NoStr

\* df[field].apply(fetch_source_id_for_issn), given the collaborator's answers
FetchCol(table, field, ans) ==
    [i \in 1..Len(table) |-> fetch_source_id_for_issn(table[i][field], ans[i])]

\* the answers of a pass that calls nobody
NoAnswers(table) == [i \in 1..Len(table) |-> NoStr]

\* the source_id column build_cs_by_source works on: the table's own, or the
\* backfilled one (source_id_from_print where it is there, source_id_from_e
\* otherwise)
SourceIdCol(table, hasCol, fromP, fromE) ==
    [i \in 1..Len(table) |->
        IF hasCol THEN table[i].source_id
        ELSE IF fromP[i].kind # "None" THEN fromP[i] ELSE fromE[i]]

\* the row filter letting every row through
KeepsEveryRow(sid) == TRUE

\* the row filter of build_cs_by_source: source_id, as text, is not blank
KeepsRow(sid) == Strip(AsTypeStr(sid)) # <<>>

\* build_cs_by_source
build_cs_by_source(table, hasCol, fromP, fromE) ==
    LET sids == SourceIdCol(table, hasCol, fromP, fromE)
        df == [i \in 1..Len(table) |->
                  [source_id |-> sids[i], asjc_set |-> table[i].asjc_set,
                   cs_percentile |-> table[i].cs_percentile,
                   citescore |-> table[i].citescore]]
        kept == RowsAt(df, {i \in 1..Len(df) : KeepsRow(df[i].source_id)})
        keys == [i \in 1..Len(kept) |-> <<kept[i].source_id, kept[i].asjc_set>>]
    IN RowsAt(kept, FirstOfKey(keys))

-----------------------------------------------------------------------------
(* The enrichment pass *)

\* cs_by_source[cs_by_source["source_id"].astype(str) == sid]
RegistryCands(by_source, sid) ==
    RowsAt(by_source, {i \in 1..Len(by_source) : AsTypeStr(by_source[i].source_id) = sid})

\* cs_table[[key,"asjc_set","cs_percentile","citescore"]].drop_duplicates(),
\* then the rows whose key equals the publication's
KeyView(table, field, key) ==
    LET proj == [i \in 1..Len(table) |->
                    [key |-> table[i][field], asjc_set |-> table[i].asjc_set,
                     cs_percentile |-> table[i].cs_percentile,
                     citescore |-> table[i].citescore]]
        uniq == RowsAt(proj, FirstOfKey(proj))
    IN RowsAt(uniq, {i \in 1..Len(uniq) : uniq[i].key = key})

\* pd.concat([cs_p[issn_key == issn], cs_e[eissn_key == eissn]])
IdentifierCands(table, issn, eissn) ==
    KeyView(table, "issn_key", issn) \o KeyView(table, "eissn_key", eissn)

\* the fallback test taking nan for None
NeedsFallbackOnNan(pct, val) == IsNa(pct) /\ IsNa(val)

\* the test that sends a publication to the identifier lookup
NeedsFallback(pct, val) == pct.kind = "None" /\ val.kind = "None"

issn_key_of(article) == _norm_issn(AsTypeStr(article.issn_print))

eissn_key_of(article) == _norm_issn(AsTypeStr(article.issn_electronic))

\* one iteration of the loop of enrich_with_citescore_sourceid_asjc: the calls
\* of the matcher it makes and the pair it appends
MatchOne(article, table, by_source) ==
    LET article_asjc == _norm_asjc_codes(article.asjc_codes)
        sid == _s(article.source_id)
        c1 == RegistryCands(by_source, sid)
        r1 == IF sid # <<>> THEN _pick_best_candidate(c1, article_asjc)
              ELSE <<None, None>>
        c2 == IdentifierCands(table, issn_key_of(article), eissn_key_of(article))
        r2 == _pick_best_candidate(c2, article_asjc)
        call1 == IF sid # <<>>
                 THEN <<[via |-> "registry", cands |-> c1, asjc |-> article_asjc,
                         pct |-> r1[1], val |-> r1[2]]>>
                 ELSE <<>>
        call2 == <<[via |-> "identifier", cands |-> c2, asjc |-> article_asjc,
                    pct |-> r2[1], val |-> r2[2]]>>
    IN IF NeedsFallback(r1[1], r1[2])
       THEN [pct |-> r2[1], val |-> r2[2], calls |-> call1 \o call2]
       ELSE [pct |-> r1[1], val |-> r1[2], calls |-> call1]

\* df["cs_percentile"] = out_pct, df["citescore"] = out_val, then the quartile
EnrichedFrame(articles, pcts, vals) ==
    LET pc == InferCol(pcts)
        vc == InferCol(vals)
    IN [i \in 1..Len(articles) |->
           [article |-> articles[i],
            issn_key |-> issn_key_of(articles[i]),
            eissn_key |-> eissn_key_of(articles[i]),
            cs_percentile |-> pc[i], citescore |-> vc[i],
            quartile |-> quartile_from_percentile(pc[i])]]

\* build_cs_by_source on a table that has the registry-id column: no call
BuildIndex ==
    /\ e_pc = "index"
    /\ has_source_col
    /\ cs_by_source' = build_cs_by_source(cs_table, TRUE, NoAnswers(cs_table),
                                          NoAnswers(cs_table))
    /\ e_pc' = "rows"
    /\ UNCHANGED <<cs_table, has_source_col, from_print, df_articles, e_idx, picks, out_pct,
                   out_val, enriched>>
    /\ UNCHANGED <<vars_score, vars_collect, vars_call, vars_run>>

\* build_cs_by_source on a table without the column, up to the wait of line 140:
\* one resolution call for the print identifier of every row
BackfillPrint ==
    /\ e_pc = "index"
    /\ ~has_source_col
    /\ \E ansP \in [1..Len(cs_table) -> Answers] :
          from_print' = FetchCol(cs_table, "issn_key", ansP)
    /\ e_pc' = "backfill"
    /\ UNCHANGED <<cs_table, has_source_col, cs_by_source, df_articles, e_idx, picks,
                   out_pct, out_val, enriched>>
    /\ UNCHANGED <<vars_score, vars_collect, vars_call, vars_run>>

\* after the wait: one call for the electronic identifier of every row, then the
\* source_id column, the row filter and the de-duplication
BackfillE ==
    /\ e_pc = "backfill"
    /\ \E ansE \in [1..Len(cs_table) -> Answers] :
          cs_by_source' = build_cs_by_source(cs_table, FALSE, from_print,
                                             FetchCol(cs_table, "eissn_key", ansE))
    /\ e_pc' = "rows"
    /\ UNCHANGED <<cs_table, has_source_col, from_print, df_articles, e_idx, picks, out_pct,
                   out_val, enriched>>
    /\ UNCHANGED <<vars_score, vars_collect, vars_call, vars_run>>

EnrichEmpty ==
    /\ e_pc = "rows"
    /\ df_articles = <<>>
    /\ enriched' = <<>>
    /\ e_pc' = "done"
    /\ UNCHANGED <<cs_table, has_source_col, from_print, cs_by_source, df_articles, e_idx, picks,
                   out_pct, out_val>>
    /\ UNCHANGED <<vars_score, vars_collect, vars_call, vars_run>>

EnrichRow ==
    /\ e_pc = "rows"
    /\ e_idx <= Len(df_articles)
    /\ LET m == MatchOne(df_articles[e_idx], cs_table, cs_by_source)
       IN /\ out_pct' = Append(out_pct, m.pct)
          /\ out_val' = Append(out_val, m.val)
          /\ picks' = m.calls
    /\ e_idx' = e_idx + 1
    /\ UNCHANGED <<cs_table, has_source_col, from_print, cs_by_source, df_articles, e_pc, enriched>>
    /\ UNCHANGED <<vars_score, vars_collect, vars_call, vars_run>>

EnrichFinish ==
    /\ e_pc = "rows"
    /\ df_articles # <<>>
    /\ e_idx > Len(df_articles)
    /\ enriched' = EnrichedFrame(df_articles, out_pct, out_val)
    /\ e_pc' = "done"
    /\ UNCHANGED <<cs_table, has_source_col, from_print, cs_by_source, df_articles, e_idx, picks,
                   out_pct, out_val>>
    /\ UNCHANGED <<vars_score, vars_collect, vars_call, vars_run>>

-----------------------------------------------------------------------------
(* Inputs of the enrichment pass *)

C1402 == <<"1", "4", "0", "2">>

C2700 == <<"2", "7", "0", "0">>

Issn1234 == <<"1", "2", "3", "4">>

Issn567X == <<"5", "6", "7", "X">>

RefRow(sid, issn, eissn, asjc, pct, score) ==
    [source_id |-> Str(sid), issn_key |-> issn, eissn_key |-> eissn, asjc_set |-> asjc,
     cs_percentile |-> pct, citescore |-> score]

\* rows of a canonical reference table, as _coerce_percentile and _coerce_float
\* leave their cells before the column's dtype is inferred
RefPool ==
    { RefRow(<<"1", "1">>, Issn1234, <<>>, {C1402, C2700}, Num(700), Num(31)),
      RefRow(<<"1", "1">>, Issn1234, <<>>, {C1402}, Num(950), Num(52)),
      RefRow(<<"1", "1">>, <<>>, Issn567X, {C1402}, None, None),
      RefRow(<<>>, Issn1234, Issn567X, {C2700}, Num(600), Num(20)),
      RefRow(<<"2", "2">>, <<>>, <<>>, {}, None, Num(44)),
      RefRow(<<"1", "1">>, Issn1234, <<>>, {C1402, C2700}, Num(880), Num(40)) }

SeqsUpTo(S, lo, hi) == UNION {[1..n -> S] : n \in lo..hi}

\* the frame load_citescore_table returns for these rows: the percentile and
\* score columns carry the dtype inferred from their cells
LoadedTable(rows) ==
    LET pc == InferCol([i \in 1..Len(rows) |-> rows[i].cs_percentile])
        vc == InferCol([i \in 1..Len(rows) |-> rows[i].citescore])
    IN [i \in 1..Len(rows) |->
           [rows[i] EXCEPT !.cs_percentile = pc[i], !.citescore = vc[i]]]

Article(sid, p, e, asjc) ==
    [source_id |-> Str(sid), issn_print |-> Str(p), issn_electronic |-> Str(e),
     asjc_codes |-> asjc]

\* records as get_article_metadata returns them
ArticlePool ==
    { Article(<<"1", "1">>, Issn1234, <<>>, C1402 \o <<",", " ">> \o C2700),
      Article(<<>>, <<"1", "2", "-", "3", "4">>, <<"5", "6", "7", "x">>, C2700),
      Article(<<>>, <<>>, <<>>, <<>>),
      Article(<<"3", "3">>, <<"9">>, <<>>, C1402),
      Article(<<"2", "2">>, <<"1", "2", "-", "3", "4">>, <<>>, C1402) }

IdleEnrich ==
    /\ cs_table = <<>> /\ has_source_col = TRUE /\ from_print = <<>>
    /\ cs_by_source = <<>>
    /\ df_articles = <<>> /\ e_pc = "idle" /\ e_idx = 0 /\ picks = <<>>
    /\ out_pct = <<>> /\ out_val = <<>> /\ enriched = <<>>

IdleScore ==
    /\ s_articles = <<>> /\ fixed_years = {} /\ cy = 0 /\ s_pc = "idle"
    /\ df_app = <<>> /\ app_summary = [app_total |-> 0, eligibility |-> "", years |-> <<>>]

IdleCollect ==
    /\ c_pc = "idle" /\ eids = <<>> /\ c_i = 0 /\ recs = <<>> /\ calls = <<>>
    /\ warned = 0

IdleCall == f_pc = "idle" /\ f_arg = <<>> /\ f_ret = <<>>

\* no callee has made a frame yet
NoObjs ==
    [df |-> <<>>, cands |-> <<>>, cands_copy |-> <<>>, tmp |-> <<>>, selected |-> <<>>,
     eligible |-> <<>>]

IdleRun ==
    /\ r_pc = "idle" /\ auids = <<>> /\ r_left = 0
    /\ all_rows = <<>> /\ r_objs = NoObjs /\ r_df = ""

\* compute_and_build up to the first call of the enrichment pass: the table is
\* loaded (here with its registry-id column) and one author's batch is collected
InitEnrich ==
    /\ \E rows \in SeqsUpTo(RefPool, 1, MaxRefRows) : cs_table = LoadedTable(rows)
    /\ has_source_col = TRUE
    /\ from_print = <<>>
    /\ cs_by_source = <<>>
    /\ df_articles \in SeqsUpTo(ArticlePool, 0, MaxBatch)
    /\ e_pc = "index"
    /\ e_idx = 1
    /\ picks = <<>>
    /\ out_pct = <<>>
    /\ out_val = <<>>
    /\ enriched = <<>>
    /\ IdleScore
    /\ IdleCollect
    /\ IdleCall
    /\ IdleRun

NextEnrich == BuildIndex \/ EnrichEmpty \/ EnrichRow \/ EnrichFinish

SpecEnrich == InitEnrich /\ [][NextEnrich]_vars

-----------------------------------------------------------------------------
(* Properties of the matcher and the enrichment pass *)

\* percentile a is not above percentile b, a missing one being below every
\* present one
PctLE(a, b) == IsNa(a) \/ (~IsNa(b) /\ a.v <= b.v)

\* row j of cands is top-ranked for the subject codes asjc: no row overlaps more,
\* and no row of the same overlap has a higher percentile
IsTopRanked(cands, asjc, j) ==
    \A i \in 1..Len(cands) :
        /\ Overlap(asjc, cands[i]) <= Overlap(asjc, cands[j])
        /\ Overlap(asjc, cands[i]) = Overlap(asjc, cands[j])
              => PctLE(cands[i].cs_percentile, cands[j].cs_percentile)

\* C1: every call of the matcher on a non-empty candidate set returns the
\* percentile and score of a candidate of maximal subject-code overlap and, among
\* those, of maximal percentile (missing lowest); a candidate of smaller overlap
\* is never chosen, whatever its percentile.
C1_MatcherPicksBest ==
    \A k \in 1..Len(picks) :
        picks[k].cands # <<>> =>
            \E j \in 1..Len(picks[k].cands) :
                /\ IsTopRanked(picks[k].cands, picks[k].asjc, j)
                /\ picks[k].pct = picks[k].cands[j].cs_percentile
                /\ picks[k].val = picks[k].cands[j].citescore

\* the spec's tie-break case: A has percentile 70 and overlap 2, B percentile 95
\* and overlap 1, and the matcher returned A's percentile
C1_Witness ==
    \E k \in 1..Len(picks) :
        /\ \E a, b \in 1..Len(picks[k].cands) :
              /\ Overlap(picks[k].asjc, picks[k].cands[a]) = 2
              /\ picks[k].cands[a].cs_percentile = Num(700)
              /\ Overlap(picks[k].asjc, picks[k].cands[b]) = 1
              /\ picks[k].cands[b].cs_percentile = Num(950)
        /\ picks[k].pct = Num(700)

\* the publication at position k, as the enrichment loop reads it
SidOf(k) == _s(df_articles[k].source_id)

AsjcOf(k) == _norm_asjc_codes(df_articles[k].asjc_codes)

RegistryOf(k) == RegistryCands(cs_by_source, SidOf(k))

IdentifierOf(k) ==
    IdentifierCands(cs_table, issn_key_of(df_articles[k]), eissn_key_of(df_articles[k]))

\* C2: a processed publication with a non-empty registry_id that some entry of
\* the index carries gets the percentile and score of a top-ranked entry of its
\* registry_id candidate set; the identifier lookup does not decide its values.
C2_RegistryBeforeIdentifier ==
    \A k \in 1..Len(out_pct) :
        (SidOf(k) # <<>> /\ RegistryOf(k) # <<>>) =>
            \E j \in 1..Len(RegistryOf(k)) :
                /\ IsTopRanked(RegistryOf(k), AsjcOf(k), j)
                /\ out_pct[k] = RegistryOf(k)[j].cs_percentile
                /\ out_val[k] = RegistryOf(k)[j].citescore

\* a processed publication whose registry_id has candidates while its identifiers
\* reach an entry with other values: the identifier lookup would have answered
\* differently
C2_Witness ==
    \E k \in 1..Len(out_pct) :
        /\ SidOf(k) # <<>>
        /\ RegistryOf(k) # <<>>
        /\ IdentifierOf(k) # <<>>
        /\ _pick_best_candidate(IdentifierOf(k), AsjcOf(k)) # <<out_pct[k], out_val[k]>>

\* no registry_id match and no identifier match
Unmatched(k) ==
    /\ SidOf(k) = <<>> \/ RegistryOf(k) = <<>>
    /\ IdentifierOf(k) = <<>>

\* C3: after the enrichment pass an unmatched publication has no percentile, no
\* score and the empty quartile label, whatever the rest of its batch matched.
C3_UnmatchedIsEmpty ==
    e_pc = "done" =>
        \A k \in 1..Len(enriched) :
            Unmatched(k) =>
                /\ IsNa(enriched[k].cs_percentile)
                /\ IsNa(enriched[k].citescore)
                /\ enriched[k].quartile = ""

-----------------------------------------------------------------------------
(* The APP scoring engine *)

\* _to_int_year: the first run of four digits of the text, as an integer
_to_int_year(y) ==
    LET starts == {i \in 1..(Len(y) - 3) : \A j \in i..(i + 3) : y[j] \in Digits}
    IN IF starts = {} THEN None
       ELSE LET i == CHOOSE a \in starts : \A b \in starts : a <= b
            IN Num(1000 * DigitVal(y[i]) + 100 * DigitVal(y[i + 1])
                   + 10 * DigitVal(y[i + 2]) + DigitVal(y[i + 3]))

\* pd.to_numeric(..., errors="coerce") on a cell of numbers: missing becomes nan
ToNumeric(c) == IF c.kind = "num" THEN c ELSE NaN

\* the quality class with the top boundary excluded (p > 90)
QcTopExclusive(p) ==
    IF p.kind # "num" THEN None
    ELSE IF p.v > 900 THEN Num(14)
    ELSE IF p.v >= 750 THEN Num(10)
    ELSE IF p.v >= 500 THEN Num(8)
    ELSE IF p.v >= 250 THEN Num(6)
    ELSE IF p.v >= 0 THEN Num(4)
    ELSE None

\* _qc_from_percentile, in tenths (1.4 is 14); nan fails every comparison
_qc_from_percentile(p) ==
    IF p.kind # "num" THEN None
    ELSE IF p.v >= 900 THEN Num(14)
    ELSE IF p.v >= 750 THEN Num(10)
    ELSE IF p.v >= 500 THEN Num(8)
    ELSE IF p.v >= 250 THEN Num(6)
    ELSE IF p.v >= 0 THEN Num(4)
    ELSE None

\* a float carried as the exact fraction num / den; lo tells that the double the
\* code holds lies just below the fraction, which decides a rounding tie
Frac(n, d) == [num |-> n, den |-> d, lo |-> FALSE]

\* the author credit with the numerator 1.0 in place of 1.2
AcCreditOne(n) == IF n <= 1 THEN Frac(10, 10) ELSE Frac(10, 10 * n)

\* _ac_from_authors, as an exact fraction: 1.2 for n <= 1, 1.2 / n otherwise
_ac_from_authors(n) == IF n <= 1 THEN Frac(12, 10) ELSE Frac(12, 10 * n)

\* Series.round(2), in hundredths: rint(x * 100), ties to even; a double just
\* below a tie rounds down
Round2(x) ==
    LET a == x.num * 100
        q == a \div x.den
        r == a % x.den
    IN IF 2 * r < x.den THEN q
       ELSE IF 2 * r > x.den THEN q + 1
       ELSE IF x.lo THEN q
       ELSE IF q % 2 = 0 THEN q ELSE q + 1

\* the products 1.2 / n * qc (as <<10 n, 10 qc>>) whose exact value is a
\* rounding tie while the double product, times 100, lies below it: 48 authors
\* with 1.4 or 0.6, 336 authors with 1.4.  At every other tie (16, 32, 48 with
\* 1.0, 64, 80, 96, 112, 144, 192 and 240 authors) the double is the tie itself.
ProductsBelowTie == {<<480, 14>>, <<480, 6>>, <<3360, 14>>}

\* eligible["AC"] * eligible["QC"] in double arithmetic
AcTimesQc(ac, qc) ==
    [num |-> ac.num * qc, den |-> ac.den * 10, lo |-> <<ac.den, qc>> \in ProductsBelowTie]

\* the year window of build_app_sheet: an empty or absent fixed set is falsy
YearsOk(fixed, now) == IF fixed # {} THEN fixed ELSE {now, now - 1, now - 2}

RECURSIVE SortedYears(_)
SortedYears(S) ==
    IF S = {} THEN <<>>
    ELSE LET lo == CHOOSE a \in S : \A b \in S : a <= b
         IN <<lo>> \o SortedYears(S \ {lo})

\* the columns build_app_sheet adds to its copy of the frame
Derived(row) ==
    [article |-> row,
     year_i |-> _to_int_year(row.year),
     cs_percentile_num |-> ToNumeric(row.cs_percentile),
     authors_count_i |-> IF row.authors_count.kind = "num" THEN row.authors_count.v ELSE 1,
     subtype_norm |-> LowerStr(row.subtype)]

\* the eligibility filter accepting every subtype
IsEligibleAnyType(d, years_ok) ==
    /\ d.year_i.kind = "num" /\ d.year_i.v \in years_ok
    /\ ~IsNa(d.cs_percentile_num)

\* the row mask of the eligibility filter
IsEligible(d, years_ok) ==
    /\ d.year_i.kind = "num" /\ d.year_i.v \in years_ok
    /\ ~IsNa(d.cs_percentile_num)
    /\ d.subtype_norm = <<"a", "r">>

\* Python's order on two strings
RECURSIVE StrLess(_, _)
StrLess(a, b) ==
    IF b = <<>> THEN FALSE
    ELSE IF a = <<>> THEN TRUE
    ELSE IF Ord(Head(a)) # Ord(Head(b)) THEN Ord(Head(a)) < Ord(Head(b))
    ELSE StrLess(Tail(a), Tail(b))

\* row a sorts strictly before row b under sort_values(["year","Contribution"],
\* ascending=[False, False])
ScoredBefore(a, b) ==
    \/ StrLess(b.article.year, a.article.year)
    \/ a.article.year = b.article.year /\ a.Contribution > b.Contribution

RECURSIVE InsertScored(_, _)
InsertScored(x, sorted) ==
    IF sorted = <<>> THEN <<x>>
    ELSE IF ScoredBefore(x, Head(sorted)) THEN <<x>> \o sorted
    ELSE <<Head(sorted)>> \o InsertScored(x, Tail(sorted))

RECURSIVE SortScored(_)
SortScored(rows) ==
    IF rows = <<>> THEN <<>>
    ELSE InsertScored(rows[Len(rows)], SortScored(SubSeq(rows, 1, Len(rows) - 1)))

RECURSIVE SumContribution(_)
SumContribution(rows) ==
    IF rows = <<>> THEN 0 ELSE Head(rows).Contribution + SumContribution(Tail(rows))

TierTwo ==
    "APP > 1.0: up to 2 supports per academic year (only 1 requires full indexing & APP check)"

TierOne == "0.4 <= APP <= 1.0: 1 support per academic year"

TierOneIf == "APP < 0.4: 1 support per academic year (if other criteria met)"

TierNone == "No eligible items"

TierNoneQc == "No eligible items (QC missing)"

\* the tier chain with the lower boundary excluded
TierExclusive(app_total) ==
    IF app_total > 100 THEN TierTwo
    ELSE IF app_total > 40 THEN TierOne
    ELSE TierOneIf

\* the tier chain of build_app_sheet on the total in hundredths
TierOf(app_total) ==
    IF app_total > 100 THEN TierTwo
    ELSE IF app_total >= 40 THEN TierOne
    ELSE TierOneIf

\* the total that leaves the last scored row out
TotalDropLast(rows) ==
    IF rows = <<>> THEN 0 ELSE SumContribution(SubSeq(rows, 1, Len(rows) - 1))

\* float(df_app["Contribution"].sum().round(2)), in hundredths
AppTotal(rows) == Round2(Frac(SumContribution(rows), 100))

\* the tier reported when the quality class of every eligible row is missing,
\* were it the plain one
TierNoneQcPlain == TierNone

\* the tier reported when the quality class of every eligible row is missing
TierWhenQcMissing == TierNoneQc

\* eligible[eligible["QC"].notna()]
QcKeeps(s) == ~IsNa(s.QC)

\* build_app_sheet: <<df_app, summary>>
build_app_sheet(articles, fixed, now) ==
    IF articles = <<>>
    THEN <<<<>>, [app_total |-> 0, eligibility |-> TierNone, years |-> <<>>]>>
    ELSE
    LET years_ok == YearsOk(fixed, now)
        tmp == [i \in 1..Len(articles) |-> Derived(articles[i])]
        eligible == RowsAt(tmp, {i \in 1..Len(tmp) : IsEligible(tmp[i], years_ok)})
        weighted == [i \in 1..Len(eligible) |->
                        [article |-> eligible[i].article,
                         QC |-> _qc_from_percentile(eligible[i].cs_percentile_num),
                         AC |-> _ac_from_authors(eligible[i].authors_count_i)]]
        kept == RowsAt(weighted, {i \in 1..Len(weighted) : QcKeeps(weighted[i])})
        scored == [i \in 1..Len(kept) |->
                      [article |-> kept[i].article,
                       AC |-> Round2(kept[i].AC),
                       QC |-> Round2(Frac(IF IsNa(kept[i].QC) THEN 0 ELSE kept[i].QC.v, 10)),
                       Contribution |->
                           IF IsNa(kept[i].QC) THEN 0
                           ELSE Round2(AcTimesQc(kept[i].AC, kept[i].QC.v))]]
        out == SortScored(scored)
        app_total == AppTotal(out)
    IN IF eligible = <<>>
       THEN <<<<>>, [app_total |-> 0, eligibility |-> TierNone,
                     years |-> SortedYears(years_ok)]>>
       ELSE IF kept = <<>>
       THEN <<<<>>, [app_total |-> 0, eligibility |-> TierWhenQcMissing,
                     years |-> SortedYears(years_ok)]>>
       ELSE <<out, [app_total |-> app_total, eligibility |-> TierOf(app_total),
                    years |-> SortedYears(years_ok)]>>

BuildAppSheet ==
    /\ s_pc = "ready"
    /\ LET r == build_app_sheet(s_articles, fixed_years, cy)
       IN df_app' = r[1] /\ app_summary' = r[2]
    /\ s_pc' = "done"
    /\ UNCHANGED <<s_articles, fixed_years, cy>>
    /\ UNCHANGED <<vars_enrich, vars_collect, vars_call, vars_run>>

-----------------------------------------------------------------------------
(* Inputs of the scoring engine *)

Y2024 == <<"2", "0", "2", "4">>

Y2022 == <<"2", "0", "2", "2">>

Y2019 == <<"2", "0", "1", "9">>

Scorable(year, subtype, n, pct) ==
    [year |-> year, subtype |-> subtype, authors_count |-> Num(n), cs_percentile |-> pct]

\* enriched records as compute_and_build merges them
ScorePool ==
    { Scorable(Y2024, <<"a", "r">>, 1, Num(920)),
      Scorable(Y2024, <<"a", "r">>, 3, Num(600)),
      Scorable(Y2024, <<"r", "e">>, 1, Num(950)),
      Scorable(Y2019, <<"a", "r">>, 1, Num(900)),
      Scorable(Y2024, <<"a", "r">>, 2, Num(-1)),
      Scorable(Y2024, <<"a", "r">>, 1, NaN),
      Scorable(<<>>, <<"a", "r">>, 1, Num(800)),
      Scorable(Y2022, <<"a", "r">>, 3, Num(750)),
      Scorable(Y2024, <<"a", "r">>, 2, Num(899)),
      Scorable(Y2024, <<"A", "R">>, 2, Num(250)) }

\* one in-window article for every percentile from -0.3 to MaxPct tenths and
\* every author count up to MaxAuthorCount
SweepPool ==
    {Scorable(Y2024, <<"a", "r">>, n, Num(p)) : n \in 0..MaxAuthorCount, p \in (-3)..MaxPct}

\* the frames build_app_sheet is given: any short frame over ScorePool, or one
\* article of SweepPool
ScoreFrames == SeqsUpTo(ScorePool, 0, MaxPubs) \cup {<<a>> : a \in SweepPool}

\* the caller's year window: none, or the fixed window of the form
FixedYearChoices == {{}, {2022, 2023, 2024}}

\* datetime.now().year
ClockYears == {2024, 2026}

InitScore ==
    /\ s_articles \in ScoreFrames
    /\ fixed_years \in FixedYearChoices
    /\ cy \in ClockYears
    /\ s_pc = "ready"
    /\ df_app = <<>>
    /\ app_summary = [app_total |-> 0, eligibility |-> "", years |-> <<>>]
    /\ IdleEnrich
    /\ IdleCollect
    /\ IdleCall
    /\ IdleRun

NextScore == BuildAppSheet

SpecScore == InitScore /\ [][NextScore]_vars

-----------------------------------------------------------------------------
(* Properties of the scoring engine *)

\* the year window in force
Window == IF fixed_years # {} THEN fixed_years ELSE {cy, cy - 1, cy - 2}

InWindow(a) ==
    LET y == _to_int_year(a.year) IN y.kind = "num" /\ y.v \in Window

\* the three conditions as the claim words them
PassesAsClaimed(a) ==
    a.subtype = <<"a", "r">> /\ InWindow(a) /\ ~IsNa(a.cs_percentile)

\* the three conditions as the filter applies them: the type code is compared
\* in lower case
PassesFilter(a) ==
    LowerStr(a.subtype) = <<"a", "r">> /\ InWindow(a) /\ ~IsNa(a.cs_percentile)

\* passes the filter and has a quality class
Qualifies(a) == PassesFilter(a) /\ a.cs_percentile.v >= 0

InScored(a) == \E k \in 1..Len(df_app) : df_app[k].article = a

\* C4 as stated: a publication is scored iff its type code equals "ar", its year
\* is in the window and its percentile is not None.
C4_ScoredIffThree ==
    s_pc = "done" =>
        \A i \in 1..Len(s_articles) :
            InScored(s_articles[i]) <=> PassesAsClaimed(s_articles[i])

\* C4 amended: a publication is scored iff its type code in lower case equals
\* "ar", its year is in the window, its percentile is a number and that number
\* is not negative; the scored list holds one row per such publication.
C4_ScoredIffQualifies ==
    s_pc = "done" =>
        /\ \A i \in 1..Len(s_articles) :
              InScored(s_articles[i]) <=> Qualifies(s_articles[i])
        /\ Len(df_app) =
              Cardinality({i \in 1..Len(s_articles) : Qualifies(s_articles[i])})

\* a non-article of high percentile and an article outside the window left out
\* beside one scored article
C4_Witness ==
    /\ s_pc = "done"
    /\ Len(df_app) = 1
    /\ \E i, j \in 1..Len(s_articles) :
          /\ s_articles[i].subtype = <<"r", "e">>
          /\ s_articles[i].cs_percentile = Num(950)
          /\ s_articles[j].subtype = <<"a", "r">>
          /\ ~InWindow(s_articles[j])
          /\ ~IsNa(s_articles[j].cs_percentile)

\* the quality class, in hundredths, by the thresholds of the claim
QcClaimed(p) ==
    CASE p >= 900 -> 140
      [] p >= 750 /\ p < 900 -> 100
      [] p >= 500 /\ p < 750 -> 80
      [] p >= 250 /\ p < 500 -> 60
      [] p >= 0 /\ p < 250 -> 40

\* c hundredths is 1.2 * q / n (q in hundredths) rounded to the nearest hundredth
IsRoundedCredit(c, q, n) ==
    LET m == IF n <= 1 THEN 1 ELSE n
        d == 100 * c * m - 120 * q
    IN 2 * d <= 100 * m /\ -(2 * d) <= 100 * m

\* C5: every scored row has contribution round(author_credit(n) * q, 2), with
\* author_credit 1.2 for n <= 1 and 1.2 / n otherwise; a sole-author article of
\* percentile 92 gets 1.68 and a 3-author article of percentile 60 gets 0.32.
C5_Contribution ==
    s_pc = "done" =>
        \A k \in 1..Len(df_app) :
            LET a == df_app[k].article
                n == a.authors_count.v
            IN /\ IsRoundedCredit(df_app[k].Contribution, df_app[k].QC, n)
               /\ IsRoundedCredit(df_app[k].AC, 100, n)
               /\ (n = 1 /\ a.cs_percentile = Num(920)) => df_app[k].Contribution = 168
               /\ (n = 3 /\ a.cs_percentile = Num(600)) => df_app[k].Contribution = 32

C5_Witness ==
    /\ s_pc = "done"
    /\ \E k \in 1..Len(df_app) :
          /\ df_app[k].article.authors_count = Num(1)
          /\ df_app[k].article.cs_percentile = Num(920)
          /\ df_app[k].Contribution = 168
    /\ \E k \in 1..Len(df_app) :
          /\ df_app[k].article.authors_count = Num(3)
          /\ df_app[k].article.cs_percentile = Num(600)
          /\ df_app[k].AC = 40
          /\ df_app[k].Contribution = 32

\* C6: the quality class of a scored row is 1.4, 1.0, 0.8, 0.6 or 0.4 by the
\* thresholds 90, 75, 50, 25 and 0, and a publication of negative percentile has
\* none: it is left out of the scored list although it passed the filter.
C6_QualityClass ==
    s_pc = "done" =>
        /\ \A k \in 1..Len(df_app) :
              /\ df_app[k].article.cs_percentile.v >= 0
              /\ df_app[k].QC = QcClaimed(df_app[k].article.cs_percentile.v)
        /\ \A i \in 1..Len(s_articles) :
              (PassesFilter(s_articles[i]) /\ s_articles[i].cs_percentile.v < 0)
                  => ~InScored(s_articles[i])
        /\ \A i \in 1..Len(s_articles) :
              (PassesFilter(s_articles[i]) /\ s_articles[i].cs_percentile.v >= 0)
                  => InScored(s_articles[i])

\* an article of negative percentile passed the filter and was left out while
\* another article was scored
C6_Witness ==
    /\ s_pc = "done"
    /\ df_app # <<>>
    /\ \E i \in 1..Len(s_articles) :
          /\ PassesFilter(s_articles[i])
          /\ s_articles[i].cs_percentile.v < 0
          /\ ~InScored(s_articles[i])

RECURSIVE SumOfScored(_)
SumOfScored(k) == IF k = 0 THEN 0 ELSE df_app[k].Contribution + SumOfScored(k - 1)

\* C7: the total of the summary is the sum of the contributions of exactly the
\* rows of the scored list (in hundredths, so already rounded to 2 decimals).
C7_TotalIsSum ==
    s_pc = "done" => app_summary.app_total = SumOfScored(Len(df_app))

\* two scored articles (0.32 and 0.60) and one excluded non-article: total 0.92
C7_Witness ==
    /\ s_pc = "done"
    /\ Len(s_articles) = 3
    /\ Len(df_app) = 2
    /\ \E i \in 1..3 : s_articles[i].subtype = <<"r", "e">>
    /\ {df_app[1].Contribution, df_app[2].Contribution} = {32, 60}
    /\ app_summary.app_total = 92

\* C8: when a publication qualifies, the tier depends on the total alone: two
\* supports iff total > 1.0, one support iff 0.4 <= total <= 1.0, one support
\* on other criteria iff total < 0.4, exactly one of the three.
C8_Tiers ==
    (s_pc = "done" /\ df_app # <<>>) =>
        LET tot == app_summary.app_total
            e == app_summary.eligibility
        IN /\ e \in {TierTwo, TierOne, TierOneIf}
           /\ e = TierTwo <=> tot > 100
           /\ e = TierOne <=> (40 <= tot /\ tot <= 100)
           /\ e = TierOneIf <=> tot < 40
           /\ Cardinality({TierTwo, TierOne, TierOneIf}) = 3

\* the lower boundary: a total of exactly 0.4 gets the one-support tier
C8_Witness ==
    /\ s_pc = "done"
    /\ df_app # <<>>
    /\ app_summary.app_total = 40
    /\ app_summary.eligibility = TierOne

NoneQualifies == \A i \in 1..Len(s_articles) : ~Qualifies(s_articles[i])

\* C9 as stated: with no qualifying publication the scored list is empty, the
\* total 0.0 and the tier the one "no eligible items" value in every case.
C9_OneEmptyTier ==
    (s_pc = "done" /\ NoneQualifies) =>
        /\ df_app = <<>>
        /\ app_summary.app_total = 0
        /\ app_summary.eligibility = TierNone

\* C9 amended: with no qualifying publication the scored list is empty, the
\* total 0.0 and the tier "No eligible items", or "No eligible items (QC
\* missing)" when some publication passed the filter; never a support tier.
C9_EmptyTiers ==
    (s_pc = "done" /\ NoneQualifies) =>
        /\ df_app = <<>>
        /\ app_summary.app_total = 0
        /\ app_summary.eligibility =
              IF \E i \in 1..Len(s_articles) : PassesFilter(s_articles[i])
              THEN "No eligible items (QC missing)" ELSE "No eligible items"
        /\ app_summary.eligibility \notin {TierTwo, TierOne, TierOneIf}

\* every publication that passed the filter has a negative percentile
C9_Witness ==
    /\ s_pc = "done"
    /\ NoneQualifies
    /\ \E i \in 1..Len(s_articles) : PassesFilter(s_articles[i])
    /\ \E i \in 1..Len(s_articles) : ~PassesFilter(s_articles[i])
    /\ df_app = <<>>
    /\ app_summary.eligibility = "No eligible items (QC missing)"

-----------------------------------------------------------------------------
(* Collecting one author's articles *)

\* what AbstractRetrieval may do for one publication: raise ScopusException
\* ("unavailable"), raise an exception of another class ("error": a connection
\* failure, say), or return a document with a subtype and an author group that
\* does or does not place the author at the affiliation asked for
Responses ==
    {[kind |-> "unavailable", subtype |-> "", aff_ok |-> FALSE],
     [kind |-> "error", subtype |-> "", aff_ok |-> FALSE]}
    \cup {[kind |-> "doc", subtype |-> s, aff_ok |-> b] : s \in {"ar", "re", "cp"},
                                                         b \in BOOLEAN}

\* get_article_metadata with an affiliation filter (compute_and_build always sets
\* one): None after a caught ScopusException, for another subtype or for another
\* affiliation, the record otherwise; an exception that is no ScopusException is
\* not caught and leaves the function
get_article_metadata(eid, resp) ==
    IF resp.kind = "unavailable" THEN [kind |-> "none", eid |-> eid, subtype |-> ""]
    ELSE IF resp.kind = "error" THEN [kind |-> "raise", eid |-> eid, subtype |-> ""]
    ELSE IF resp.subtype \notin {"ar", "re"} THEN [kind |-> "none", eid |-> eid, subtype |-> ""]
    ELSE IF ~resp.aff_ok THEN [kind |-> "none", eid |-> eid, subtype |-> ""]
    ELSE [kind |-> "record", eid |-> eid, subtype |-> resp.subtype]

\* get_author_eids: the search answers with the author's publication ids, or
\* fails and is answered by the empty list
GetEids ==
    /\ c_pc = "start"
    /\ \/ \E n \in 0..MaxEids : eids' = [i \in 1..n |-> i] /\ warned' = warned
       \/ eids' = <<>> /\ warned' = warned + 1
    /\ c_pc' = "loop"
    /\ c_i' = 1
    /\ UNCHANGED <<recs, calls>>
    /\ UNCHANGED <<vars_enrich, vars_score, vars_call, vars_run>>

\* one iteration of the loop of collect_author_articles; an exception leaving
\* get_article_metadata leaves the loop and the function too
FetchItem ==
    /\ c_pc = "loop"
    /\ c_i <= Len(eids)
    /\ \E resp \in Responses :
          LET md == get_article_metadata(eids[c_i], resp)
          IN /\ calls' = Append(calls, [eid |-> eids[c_i], resp |-> resp])
             /\ warned' = IF resp.kind = "unavailable" THEN warned + 1 ELSE warned
             /\ IF md.kind = "raise"
                THEN c_pc' = "aborted" /\ UNCHANGED <<recs, c_i>>
                ELSE /\ recs' = IF md.kind = "record" THEN Append(recs, md) ELSE recs
                     /\ c_i' = c_i + 1
                     /\ c_pc' = c_pc
    /\ UNCHANGED eids
    /\ UNCHANGED <<vars_enrich, vars_score, vars_call, vars_run>>

\* the loop is over: the frame of the records is returned
CollectDone ==
    /\ c_pc = "loop"
    /\ c_i > Len(eids)
    /\ c_pc' = "done"
    /\ UNCHANGED <<eids, c_i, recs, calls, warned>>
    /\ UNCHANGED <<vars_enrich, vars_score, vars_call, vars_run>>

InitCollect ==
    /\ c_pc = "start"
    /\ eids = <<>>
    /\ c_i = 0
    /\ recs = <<>>
    /\ calls = <<>>
    /\ warned = 0
    /\ IdleEnrich
    /\ IdleScore
    /\ IdleCall
    /\ IdleRun

NextCollect == GetEids \/ FetchItem \/ CollectDone

SpecCollect == InitCollect /\ [][NextCollect]_vars

\* the ids of the publications whose call answered with a usable document, in
\* the order of the calls
RECURSIVE Delivered(_)
Delivered(log) ==
    IF log = <<>> THEN <<>>
    ELSE LET init == Delivered(SubSeq(log, 1, Len(log) - 1))
             last == log[Len(log)]
         IN IF last.resp.kind = "doc" /\ last.resp.subtype \in {"ar", "re"}
               /\ last.resp.aff_ok
            THEN Append(init, last.eid) ELSE init

\* C10: a failed collaborator call is caught for its item only: the collection
\* is never aborted, the call for every publication of the author is made in order, and
\* the records are those of the publications that answered, in order, the failed
\* ones left out.
C10_FailureIsPerItem ==
    /\ c_pc # "aborted"
    /\ \A k \in 1..Len(calls) : calls[k].eid = eids[k]
    /\ Len(calls) <= Len(eids)
    /\ [k \in 1..Len(recs) |-> recs[k].eid] = Delivered(calls)
    /\ c_pc = "done" => Len(calls) = Len(eids)

-----------------------------------------------------------------------------
(* Loading the reference table: the resolution of the column headers *)

MaxCols == 5

\* the keys load_citescore_table looks up, in the order of each "or" chain
PrintAliases ==
    << <<"p", "r", "i", "n", "t", " ", "i", "s", "s", "n">>,
       <<"p", "-", "i", "s", "s", "n">>,
       <<"i", "s", "s", "n">> >>

EAliases == << <<"e", "-", "i", "s", "s", "n">>, <<"e", "i", "s", "s", "n">> >>

PctAliases ==
    << <<"p", "e", "r", "c", "e", "n", "t", "i", "l", "e">>,
       <<"c", "i", "t", "e", "s", "c", "o", "r", "e", " ",
         "p", "e", "r", "c", "e", "n", "t", "i", "l", "e">> >>

ValAliases ==
    << <<"c", "i", "t", "e", "s", "c", "o", "r", "e">>,
       <<"c", "i", "t", "e", "s", "c", "o", "r", "e", " ", "2", "0", "2", "4">> >>

SrcAliases ==
    << <<"s", "o", "u", "r", "c", "e", " ", "i", "d">>,
       <<"s", "c", "o", "p", "u", "s", " ", "s", "o", "u", "r", "c", "e", " ", "i", "d">>,
       <<"s", "c", "o", "p", "u", "s", " ", "s", "o", "u", "r", "c", "e", "i", "d">> >>

AsjcAliases ==
    << <<"a", "s", "j", "c">>,
       <<"a", "s", "j", "c", " ", "c", "o", "d", "e">>,
       <<"a", "s", "j", "c", " ", "c", "o", "d", "e", "s">>,
       <<"s", "u", "b", "j", "e", "c", "t", " ", "a", "r", "e", "a", " ",
         "a", "s", "j", "c">> >>

\* the key of a header in the dictionary norm
NormKey(c) == LowerStr(Strip(c))

\* norm.get(key): the header stored under the key, the last one of the frame
\* when two headers share it
NormGet(columns, key) ==
    LET hits == {i \in 1..Len(columns) : NormKey(columns[i]) = key}
    IN IF hits = {} THEN NoStr
       ELSE Str(columns[CHOOSE i \in hits : \A j \in hits : j <= i])

\* a value Python takes for true: a header that is not the empty string
Truthy(x) == x.kind = "str" /\ x.s # <<>>

\* norm.get(k1) or norm.get(k2) or ...
RECURSIVE Resolve(_, _)
Resolve(columns, keys) ==
    IF Len(keys) = 1 THEN NormGet(columns, keys[1])
    ELSE IF Truthy(NormGet(columns, keys[1])) THEN NormGet(columns, keys[1])
    ELSE Resolve(columns, Tail(keys))

\* the test that accepts a table without a score column
AllRequiredButScore(p, e, pct, val) == Truthy(p) /\ Truthy(e) /\ Truthy(pct)

\* all([p, e, pct, val])
AllRequired(p, e, pct, val) == Truthy(p) /\ Truthy(e) /\ Truthy(pct) /\ Truthy(val)

\* the column names the text of the KeyError quotes
RequiredNames == <<"Print ISSN", "E-ISSN", "Percentile", "CiteScore">>

\* the header "source_id" itself, which no alias stands for
SourceIdHeader == <<"s", "o", "u", "r", "c", "e", "_", "i", "d">>

\* load_citescore_table on a frame with these headers: the exception it raises
\* with what its text names and lists, or the columns of the frame it returns.
\* The frame has a source_id column when an alias was renamed to it (line 98) or
\* when a header is "source_id" already (lines 105 and 113 test the column, not
\* the alias); with both, the frame has two columns of that name and line 106
\* fails on the two-column selection, which has no .str
load_citescore_table(columns) ==
    LET p == Resolve(columns, PrintAliases)
        e == Resolve(columns, EAliases)
        pct == Resolve(columns, PctAliases)
        val == Resolve(columns, ValAliases)
        src == Resolve(columns, SrcAliases)
        literal == \E i \in 1..Len(columns) : columns[i] = SourceIdHeader
        base == <<"issn_key", "eissn_key", "asjc_set", "cs_percentile", "citescore">>
    IN IF ~AllRequired(p, e, pct, val)
       THEN [raised |-> "KeyError", names |-> RequiredNames, listed |-> columns,
             keep |-> <<>>]
       ELSE IF Truthy(src) /\ literal
       THEN [raised |-> "AttributeError", names |-> <<>>, listed |-> <<>>, keep |-> <<>>]
       ELSE [raised |-> "", names |-> <<>>, listed |-> <<>>,
             keep |-> IF Truthy(src) \/ literal THEN <<"source_id">> \o base ELSE base]

LoadTable ==
    /\ f_pc = "load"
    /\ f_ret' = load_citescore_table(f_arg)
    /\ f_pc' = "done"
    /\ UNCHANGED f_arg
    /\ UNCHANGED <<vars_enrich, vars_score, vars_collect, vars_run>>

\* headers as a CiteScore export carries them
HeaderPool ==
    { <<"P", "r", "i", "n", "t", " ", "I", "S", "S", "N">>,
      <<" ", "i", "s", "s", "n">>,
      <<"E", "-", "I", "S", "S", "N">>,
      <<"P", "e", "r", "c", "e", "n", "t", "i", "l", "e">>,
      <<"C", "i", "t", "e", "S", "c", "o", "r", "e">>,
      <<"S", "o", "u", "r", "c", "e", " ", "I", "D">>,
      <<"A", "S", "J", "C">>,
      <<"T", "i", "t", "l", "e">>,
      SourceIdHeader }

\* the header rows robust_read_table can return: distinct headers in any order
HeaderRows ==
    {c \in SeqsUpTo(HeaderPool, 0, MaxCols) :
        \A i, j \in 1..Len(c) : i # j => c[i] # c[j]}

InitLoad ==
    /\ f_pc = "load"
    /\ f_arg \in HeaderRows
    /\ f_ret = <<>>
    /\ IdleEnrich
    /\ IdleScore
    /\ IdleCollect
    /\ IdleRun

NextLoad == LoadTable

SpecLoad == InitLoad /\ [][NextLoad]_vars

\* some header of the frame is, stripped and in lower case, one of the keys
Resolvable(columns, keys) ==
    \E i \in 1..Len(columns) : \E k \in 1..Len(keys) : NormKey(columns[i]) = keys[k]

\* the required concepts, each with its keys and the name the error text uses
RequiredConcepts ==
    { [keys |-> PrintAliases, name |-> "Print ISSN"],
      [keys |-> EAliases, name |-> "E-ISSN"],
      [keys |-> PctAliases, name |-> "Percentile"],
      [keys |-> ValAliases, name |-> "CiteScore"] }

\* the names the error text quotes are exactly those of the concepts that could
\* not be resolved
NamesTheMissing ==
    \A c \in RequiredConcepts :
        (\E n \in 1..Len(f_ret.names) : f_ret.names[n] = c.name)
            <=> ~Resolvable(f_arg, c.keys)

\* C11 as stated: loading a table in which a required concept cannot be resolved
\* fails with an error that names the concept that could not be resolved (that
\* one, not the others) and lists the columns present, and produces no table.
C11_NamesMissingConcept ==
    f_pc = "done" =>
        ((\E c \in RequiredConcepts : ~Resolvable(f_arg, c.keys)) =>
            /\ f_ret.raised # ""
            /\ NamesTheMissing
            /\ f_ret.listed = f_arg
            /\ f_ret.keep = <<>>)

\* C11: loading a table fails with the KeyError exactly when a required concept
\* (print identifier, electronic identifier, percentile, score) has no header
\* among its aliases; the text of the error then quotes the names of all four
\* required columns, whichever of them is missing, and lists the headers of the
\* table as they are, and no table is returned.
C11_MissingColumnFails ==
    f_pc = "done" =>
        /\ (\E c \in RequiredConcepts : ~Resolvable(f_arg, c.keys))
              <=> f_ret.raised = "KeyError"
        /\ f_ret.raised = "KeyError" =>
              /\ \A c \in RequiredConcepts :
                    \E n \in 1..Len(f_ret.names) : f_ret.names[n] = c.name
              /\ Len(f_ret.names) = Cardinality(RequiredConcepts)
              /\ f_ret.listed = f_arg
              /\ f_ret.keep = <<>>

\* a table with both identifiers and a score but no percentile header was
\* loaded: the error quotes the percentile and also the print identifier, which
\* was resolved
C11_Witness ==
    /\ f_pc = "done"
    /\ Resolvable(f_arg, PrintAliases) /\ Resolvable(f_arg, EAliases)
    /\ Resolvable(f_arg, ValAliases) /\ ~Resolvable(f_arg, PctAliases)
    /\ f_arg # <<>>
    /\ f_ret.raised = "KeyError"
    /\ \E n \in 1..Len(f_ret.names) : f_ret.names[n] = "Percentile"
    /\ \E n \in 1..Len(f_ret.names) : f_ret.names[n] = "Print ISSN"

-----------------------------------------------------------------------------
(* Subject-code normalisation as a function of its argument *)

MaxText == 5

NormCodes ==
    /\ f_pc = "codes"
    /\ f_ret' = NormAsjcOf(f_arg)
    /\ f_pc' = "done"
    /\ UNCHANGED f_arg
    /\ UNCHANGED <<vars_enrich, vars_score, vars_collect, vars_run>>

CodeAlphabet == {"1", "4", ",", "a"}

CodeTexts == SeqsUpTo(CodeAlphabet, 0, MaxText)

\* the text "1402, 2700, abc"
CodeExample == C1402 \o <<",", " ">> \o C2700 \o <<",", " ", "a", "b", "c">>

\* tokens of a collection: codes, a word, a short and a long digit string
TokenPool ==
    { C1402, C2700, <<"a", "b", "c">>, <<"1", "4">>, <<"1", "4", "0", "2", "1">>, <<>> }

CodeInputs ==
    {NoCodes} \cup {CodeText(s) : s \in CodeTexts \cup {CodeExample}}
      \cup {CodeList(<<s>>) : s \in CodeTexts}
      \cup {CodeList(<<a, b>>) : a \in TokenPool, b \in TokenPool}

InitCodes ==
    /\ f_pc = "codes"
    /\ f_arg \in CodeInputs
    /\ f_ret = <<>>
    /\ IdleEnrich
    /\ IdleScore
    /\ IdleCollect
    /\ IdleRun

NextCodes == NormCodes

SpecCodes == InitCodes /\ [][NextCodes]_vars

\* the tokens of the argument: those of the collection, or the pieces of the text
\* between characters that are not digits
TokensOf(raw) ==
    IF raw.form = "list" THEN raw.toks
    ELSE IF raw.form = "text" THEN SplitNonDigit(raw.text, <<>>)
    ELSE <<>>

\* e stands for the token: the token right-padded to four characters, or four
\* characters cut from either end of a longer token
StandsFor(e, tok) ==
    /\ Len(e) = 4
    /\ Len(tok) <= 4 => SubSeq(e, 1, Len(tok)) = tok
    /\ Len(tok) > 4 => e = SubSeq(tok, 1, 4) \/ e = SubSeq(tok, Len(tok) - 3, Len(tok))

\* C12 as stated: every element of the result has four characters and every
\* all-digit token of the argument is kept, padded on the right when shorter
\* than four characters and truncated when longer.
C12_EveryDigitTokenKept ==
    f_pc = "done" =>
        /\ \A e \in f_ret : Len(e) = 4
        /\ \A i \in 1..Len(TokensOf(f_arg)) :
              IsDigitTok(TokensOf(f_arg)[i]) =>
                  \E e \in f_ret : StandsFor(e, TokensOf(f_arg)[i])

\* four digits of the text that end a run of digits
EndsDigitRun(s, j) ==
    /\ j >= 4
    /\ \A k \in (j - 3)..j : s[k] \in Digits
    /\ j = Len(s) \/ s[j + 1] \notin Digits

\* C12: the result of _norm_asjc_codes holds four-character elements only, and
\* exactly these: for a text, the last four digits of every run of at least four
\* digits; for a collection, the last four characters of every all-digit token
\* of at least four characters.  Tokens with a non-digit and all-digit tokens
\* shorter than four characters are dropped, never padded.
C12_FourDigitCodes ==
    f_pc = "done" =>
        /\ \A e \in f_ret : Len(e) = 4
        /\ f_arg.form = "text" =>
              f_ret = {SubSeq(f_arg.text, j - 3, j) :
                          j \in {k \in 1..Len(f_arg.text) : EndsDigitRun(f_arg.text, k)}}
        /\ f_arg.form = "list" =>
              f_ret = {SubSeq(f_arg.toks[i], Len(f_arg.toks[i]) - 3, Len(f_arg.toks[i])) :
                          i \in {k \in 1..Len(f_arg.toks) :
                                    IsDigitTok(f_arg.toks[k]) /\ Len(f_arg.toks[k]) >= 4}}
        /\ f_arg = CodeText(CodeExample) => f_ret = {C1402, C2700}

\* a collection holding the short token "14" and the long token "14021" gave the
\* single code "4021"
C12_Witness ==
    /\ f_pc = "done"
    /\ f_arg = CodeList(<< <<"1", "4">>, <<"1", "4", "0", "2", "1">> >>)
    /\ f_ret = { <<"4", "0", "2", "1">> }

-----------------------------------------------------------------------------
(* The quartile label as a function of the percentile *)

Quartile ==
    /\ f_pc = "quartile"
    /\ f_ret' = quartile_from_percentile(f_arg)
    /\ f_pc' = "done"
    /\ UNCHANGED f_arg
    /\ UNCHANGED <<vars_enrich, vars_score, vars_collect, vars_run>>

\* no value, a value that is no number, nan, and every percentile in tenths from
\* -MaxPct to twice MaxPct
QuartileInputs == {None, NotFloat, NaN} \cup {Num(x) : x \in (-MaxPct)..(2 * MaxPct)}

InitQuartile ==
    /\ f_pc = "quartile"
    /\ f_arg \in QuartileInputs
    /\ f_ret = <<>>
    /\ IdleEnrich
    /\ IdleScore
    /\ IdleCollect
    /\ IdleRun

NextQuartile == Quartile

SpecQuartile == InitQuartile /\ [][NextQuartile]_vars

QuartileLabels == {"QT", "Q1", "Q2", "Q3", "Q4", ""}

\* C13: quartile_from_percentile returns "QT" from 90 up, "Q1" from 75 to below
\* 90, "Q2" from 50 to below 75, "Q3" from 25 to below 50, "Q4" for every number
\* below 25, the negative ones included, and "" for None; whatever the number, it
\* returns a label and raises nothing.
C13_Quartiles ==
    f_pc = "done" =>
        /\ f_ret \in QuartileLabels
        /\ f_arg = None => f_ret = ""
        /\ f_arg.kind = "num" =>
              /\ f_arg.v >= 900 => f_ret = "QT"
              /\ (750 <= f_arg.v /\ f_arg.v < 900) => f_ret = "Q1"
              /\ (500 <= f_arg.v /\ f_arg.v < 750) => f_ret = "Q2"
              /\ (250 <= f_arg.v /\ f_arg.v < 500) => f_ret = "Q3"
              /\ f_arg.v < 250 => f_ret = "Q4"

\* the label of a negative percentile was asked for and is "Q4"
C13_Witness ==
    /\ f_pc = "done"
    /\ f_arg = Num(-5)
    /\ f_ret = "Q4"

-----------------------------------------------------------------------------
(* The reference index with and without a registry-id column in the table *)

\* the frame load_citescore_table returns when no header resolves to the
\* registry id: the rows carry no source_id
WithoutSourceCol(table) == [i \in 1..Len(table) |-> [table[i] EXCEPT !.source_id = NoStr]]

\* compute_and_build up to the first call of the enrichment pass, for a table
\* with or without the registry-id column and a batch of at most one publication
InitIndex ==
    /\ has_source_col \in BOOLEAN
    /\ \E rows \in SeqsUpTo(RefPool, 1, MaxRefRows) :
          cs_table = IF has_source_col THEN LoadedTable(rows)
                     ELSE WithoutSourceCol(LoadedTable(rows))
    /\ from_print = <<>>
    /\ cs_by_source = <<>>
    /\ df_articles \in SeqsUpTo(ArticlePool, 0, 1)
    /\ e_pc = "index"
    /\ e_idx = 1
    /\ picks = <<>>
    /\ out_pct = <<>>
    /\ out_val = <<>>
    /\ enriched = <<>>
    /\ IdleScore
    /\ IdleCollect
    /\ IdleCall
    /\ IdleRun

NextIndex ==
    BuildIndex \/ BackfillPrint \/ BackfillE \/ EnrichEmpty \/ EnrichRow \/ EnrichFinish

SpecIndex == InitIndex /\ [][NextIndex]_vars

IndexBuilt == e_pc \in {"rows", "done"}

\* the registry id of a table row is the empty or a blank string
BlankSid(i) == cs_table[i].source_id.kind = "str" /\ Strip(cs_table[i].source_id.s) = <<>>

\* the index rows that carry the registry id and the subject codes of table row i
IndexRowsOf(i) ==
    {k \in 1..Len(cs_by_source) :
        /\ cs_by_source[k].source_id = cs_table[i].source_id
        /\ cs_by_source[k].asjc_set = cs_table[i].asjc_set}

\* C14 as stated: a row is left out of the index only when its registry id and
\* both of its identifiers are empty.
C14_DropsOnlyAllEmpty ==
    (IndexBuilt /\ has_source_col) =>
        \A i \in 1..Len(cs_table) :
            IndexRowsOf(i) = {} =>
                /\ BlankSid(i)
                /\ cs_table[i].issn_key = <<>>
                /\ cs_table[i].eissn_key = <<>>

\* the first table row with the registry id and subject codes of row i
FirstLike(i) ==
    CHOOSE j \in 1..i :
        /\ cs_table[j].source_id = cs_table[i].source_id
        /\ cs_table[j].asjc_set = cs_table[i].asjc_set
        /\ \A h \in 1..(j - 1) : ~(/\ cs_table[h].source_id = cs_table[i].source_id
                                    /\ cs_table[h].asjc_set = cs_table[i].asjc_set)

\* the publication the loop processed last meets table row i on a non-empty
\* print or electronic identifier
SharesIdentifier(i) ==
    \/ /\ cs_table[i].issn_key # <<>>
       /\ issn_key_of(df_articles[e_idx - 1]) = cs_table[i].issn_key
    \/ /\ cs_table[i].eissn_key # <<>>
       /\ eissn_key_of(df_articles[e_idx - 1]) = cs_table[i].eissn_key

\* C14: build_cs_by_source leaves out of the registry-id view exactly the rows
\* whose registry id is an empty or blank string, whatever their identifiers (a
\* row whose backfill found nothing has no registry id at all and stays); the
\* view has one row per (registry id, subject codes) pair, the first of the
\* table; the table itself loses no row, so a row without registry id is still
\* a candidate of the identifier lookup of a publication sharing its identifier.
C14_IndexRows ==
    IndexBuilt =>
        /\ \A k \in 1..Len(cs_by_source) : Strip(AsTypeStr(cs_by_source[k].source_id)) # <<>>
        /\ \A k, h \in 1..Len(cs_by_source) :
              (/\ cs_by_source[k].source_id = cs_by_source[h].source_id
               /\ cs_by_source[k].asjc_set = cs_by_source[h].asjc_set) => k = h
        /\ has_source_col =>
              \A i \in 1..Len(cs_table) :
                  /\ BlankSid(i) <=> IndexRowsOf(i) = {}
                  /\ \A k \in IndexRowsOf(i) :
                        /\ cs_by_source[k].cs_percentile = cs_table[FirstLike(i)].cs_percentile
                        /\ cs_by_source[k].citescore = cs_table[FirstLike(i)].citescore
        /\ ~has_source_col =>
              \A i \in 1..Len(cs_table) :
                  \E k \in 1..Len(cs_by_source) :
                      /\ cs_by_source[k].asjc_set = cs_table[i].asjc_set
                      /\ \/ cs_by_source[k].source_id = NoStr
                         \/ cs_by_source[k].source_id \in Answers
                      /\ from_print[i] # NoStr => cs_by_source[k].source_id = from_print[i]
        /\ (e_idx > 1 /\ SidOf(e_idx - 1) = <<>>) =>
              \A i \in 1..Len(cs_table) :
                  (IndexRowsOf(i) = {} /\ SharesIdentifier(i)) =>
                      \E c \in 1..Len(picks) :
                          /\ picks[c].via = "identifier"
                          /\ \E r \in 1..Len(picks[c].cands) :
                                /\ picks[c].cands[r].asjc_set = cs_table[i].asjc_set
                                /\ picks[c].cands[r].cs_percentile = cs_table[i].cs_percentile
                                /\ picks[c].cands[r].citescore = cs_table[i].citescore

\* the table has a registry-id column and a row with an empty registry id and the
\* identifiers 1234 / 567X; the index, built and not empty, leaves that row out,
\* and a publication without registry id got the row's percentile through its
\* identifiers
C14_Witness ==
    /\ IndexBuilt /\ has_source_col
    /\ cs_by_source # <<>>
    /\ \E i \in 1..Len(cs_table) :
          /\ BlankSid(i) /\ cs_table[i].issn_key = Issn1234
          /\ IndexRowsOf(i) = {}
          /\ e_idx > 1 /\ SidOf(e_idx - 1) = <<>> /\ SharesIdentifier(i)
          /\ out_pct[e_idx - 1] = cs_table[i].cs_percentile

-----------------------------------------------------------------------------
(* One run of compute_and_build: the index, every author's batch, the score *)

MaxAuthors == 2

\* what AuthorRetrieval answers: the profile's two name fields, or an exception
AuthorAnswers ==
    { [kind |-> "raise", given_name |-> NoStr, surname |-> NoStr],
      [kind |-> "ok", given_name |-> NoStr, surname |-> NoStr],
      [kind |-> "ok", given_name |-> Str(<<"A">>), surname |-> Str(<<"B">>)] }

\* the stripped "given surname", or the id when that is empty or the lookup raised
get_author_name(author_id, ar) ==
    IF ar.kind = "raise" THEN author_id
    ELSE IF Strip(_s(ar.given_name) \o <<" ">> \o _s(ar.surname)) = <<>> THEN author_id
    ELSE Strip(_s(ar.given_name) \o <<" ">> \o _s(ar.surname))

\* the frames of a run as objects, each under the name that first holds it: the
\* caller's (the table, the index, the author's frame, the merged frame) and
\* those the callees make (df of build_cs_by_source and of the enrichment, cands
\* and its copy in _pick_best_candidate, tmp and eligible in build_app_sheet)
Heap ==
    [cs_table |-> cs_table, cs_by_source |-> cs_by_source, df_articles |-> df_articles,
     merged |-> s_articles, df |-> r_objs.df, cands |-> r_objs.cands,
     cands_copy |-> r_objs.cands_copy, tmp |-> r_objs.tmp, selected |-> r_objs.selected,
     eligible |-> r_objs.eligible]

\* the objects as a step leaves them
Store(h) ==
    /\ cs_table' = h.cs_table
    /\ cs_by_source' = h.cs_by_source
    /\ df_articles' = h.df_articles
    /\ s_articles' = h.merged
    /\ r_objs' = [df |-> h.df, cands |-> h.cands, cands_copy |-> h.cands_copy,
                  tmp |-> h.tmp, selected |-> h.selected, eligible |-> h.eligible]

\* the plain assignment name = frame: no object is made and the name stands for
\* the object src itself
Alias(h, src, fresh) == [heap |-> h, obj |-> src]

\* name = frame.copy(): a new object with the rows of src, and the name stands
\* for it
copy(h, src, fresh) == [heap |-> [h EXCEPT ![fresh] = h[src]], obj |-> fresh]

\* frame[name] = col, on the object obj the frame's name stands for: every row of
\* the object gets the cell, a column of that name being replaced
SetItem(h, obj, name, col) ==
    [h EXCEPT ![obj] = [i \in 1..Len(@) |-> (name :> col[i]) @@ @[i]]]

\* a frame pandas makes out of others (a selection of rows or of columns,
\* drop_duplicates, pd.concat, the frame of a list of records): a new object
NewFrame(h, fresh, rows) == [h EXCEPT ![fresh] = rows]

\* frame[name]
Column(rows, name) == [i \in 1..Len(rows) |-> rows[i][name]]

\* one call of _pick_best_candidate: cands is the frame it is handed, a new
\* object (a row selection of the index, or the concatenation of two selections
\* of the table); an empty one is returned from at once, otherwise it is copied
\* and the copy takes the two sort keys
PickFrames(h, call) ==
    LET h1 == NewFrame(h, "cands", call.cands)
        c == copy(h1, "cands", "cands_copy")
        rows == c.heap[c.obj]
        h2 == SetItem(c.heap, c.obj, "_overlap",
                      [i \in 1..Len(rows) |-> Overlap(call.asjc, rows[i])])
    IN IF call.cands = <<>> THEN h1
       ELSE SetItem(h2, c.obj, "_pct",
                    [i \in 1..Len(rows) |-> PctKey(rows[i].cs_percentile)])

RECURSIVE PickAll(_, _)
PickAll(h, todo) ==
    IF todo = <<>> THEN h ELSE PickAll(PickFrames(h, Head(todo)), Tail(todo))

\* the loop of the enrichment from row i of the object obj on: each row reads
\* the table and the index as they are then and makes its calls of the matcher
RECURSIVE MatchRows(_, _, _)
MatchRows(h, obj, i) ==
    IF i > Len(h[obj]) THEN h
    ELSE CHOOSE r \in {MatchRows(g, obj, i + 1) :
                          g \in {PickAll(h, m.calls) :
                                    m \in {MatchOne(h[obj][i], h.cs_table, h.cs_by_source)}}} :
            TRUE

\* enrich_with_citescore_sourceid_asjc as one call: the rows of the frame it
\* returns
enrich_with_citescore_sourceid_asjc(articles, table, by_source) ==
    IF articles = <<>> THEN <<>>
    ELSE EnrichedFrame(articles,
                       [i \in 1..Len(articles) |-> MatchOne(articles[i], table, by_source).pct],
                       [i \in 1..Len(articles) |-> MatchOne(articles[i], table, by_source).val])

\* df["issn_key"] = ..., df["eissn_key"] = ... of the enrichment
KeyColumns(h, obj) ==
    SetItem(SetItem(h, obj, "issn_key", [i \in 1..Len(h[obj]) |-> issn_key_of(h[obj][i])]),
            obj, "eissn_key", [i \in 1..Len(h[obj]) |-> eissn_key_of(h[obj][i])])

\* df["cs_percentile"] = out_pct, df["citescore"] = out_val, df["quartile"] = ...
ResultColumns(h, obj, out) ==
    SetItem(SetItem(SetItem(h, obj, "cs_percentile", Column(out, "cs_percentile")),
                    obj, "citescore", Column(out, "citescore")),
            obj, "quartile", Column(out, "quartile"))

\* the four columns build_app_sheet derives on tmp
DerivedColumns(h, obj) ==
    SetItem(SetItem(SetItem(SetItem(h, obj, "year_i",
                [i \in 1..Len(h[obj]) |-> Derived(h[obj][i]).year_i]),
            obj, "cs_percentile_num",
                [i \in 1..Len(h[obj]) |-> Derived(h[obj][i]).cs_percentile_num]),
            obj, "authors_count_i",
                [i \in 1..Len(h[obj]) |-> Derived(h[obj][i]).authors_count_i]),
            obj, "subtype_norm",
                [i \in 1..Len(h[obj]) |-> Derived(h[obj][i]).subtype_norm])

\* tmp[year_i.isin(years_ok) & cs_percentile_num.notna() & (subtype_norm == "ar")]
EligibleRows(tmp, years_ok) ==
    RowsAt(tmp, {i \in 1..Len(tmp) : IsEligible(tmp[i], years_ok)})

\* eligible["QC"] = ..., eligible["AC"] = ...
WeightColumns(h, obj) ==
    SetItem(SetItem(h, obj, "QC",
                [i \in 1..Len(h[obj]) |-> _qc_from_percentile(h[obj][i].cs_percentile_num)]),
            obj, "AC",
                [i \in 1..Len(h[obj]) |-> _ac_from_authors(h[obj][i].authors_count_i)])

\* eligible[eligible["QC"].notna()]
KeptRows(eligible) == RowsAt(eligible, {i \in 1..Len(eligible) : QcKeeps(eligible[i])})

\* eligible["Contribution"] = (AC * QC).round(2), then AC and QC rounded
ScoreColumns(h, obj) ==
    SetItem(SetItem(SetItem(h, obj, "Contribution",
                [i \in 1..Len(h[obj]) |-> Round2(AcTimesQc(h[obj][i].AC, h[obj][i].QC.v))]),
            obj, "AC", [i \in 1..Len(h[obj]) |-> Round2(h[obj][i].AC)]),
            obj, "QC", [i \in 1..Len(h[obj]) |-> Round2(Frac(h[obj][i].QC.v, 10))])

\* pd.concat(all_rows, ignore_index=True)
RECURSIVE ConcatRows(_)
ConcatRows(frames) ==
    IF frames = <<>> THEN <<>> ELSE Head(frames) \o ConcatRows(Tail(frames))

\* build_cs_by_source on a table that has the registry-id column: df is a copy
\* of the table, and the index is selected from it without a call
RunIndex ==
    /\ r_pc = "index"
    /\ UNCHANGED auids
    /\ has_source_col
    /\ \E c \in {copy(Heap, "cs_table", "df")} :
          \E index \in {build_cs_by_source(c.heap[c.obj], TRUE, NoAnswers(cs_table),
                                            NoAnswers(cs_table))} :
             \E h \in {NewFrame(c.heap, "cs_by_source", index)} :
                Store(h) /\ r_df' = c.obj
    /\ r_pc' = "authors"
    /\ UNCHANGED <<has_source_col, from_print, e_pc, e_idx, picks, out_pct, out_val,
                   enriched, fixed_years, cy, s_pc, df_app, app_summary, r_left, all_rows>>
    /\ UNCHANGED <<vars_collect, vars_call>>

\* build_cs_by_source on a table without the column, up to the wait: df is a
\* copy of the table and takes the column of the print pass
RunBackfillPrint ==
    /\ r_pc = "index"
    /\ UNCHANGED auids
    /\ ~has_source_col
    /\ \E ansP \in [1..Len(cs_table) -> Answers] :
          \E c \in {copy(Heap, "cs_table", "df")} :
             \E col \in {FetchCol(c.heap[c.obj], "issn_key", ansP)} :
                \E h \in {SetItem(c.heap, c.obj, "source_id_from_print", col)} :
                   /\ from_print' = col
                   /\ Store(h)
                   /\ r_df' = c.obj
    /\ r_pc' = "backfill"
    /\ UNCHANGED <<has_source_col, e_pc, e_idx, picks, out_pct, out_val, enriched,
                   fixed_years, cy, s_pc, df_app, app_summary, r_left, all_rows>>
    /\ UNCHANGED <<vars_collect, vars_call>>

\* after the wait: df takes the column of the electronic pass and the source_id
\* column, and the index is selected from it
RunBackfillE ==
    /\ r_pc = "backfill"
    /\ UNCHANGED auids
    /\ \E ansE \in [1..Len(cs_table) -> Answers] :
          \E df \in {Heap[r_df]} :
          \E fromP \in {Column(df, "source_id_from_print")} :
          \E fromE \in {FetchCol(df, "eissn_key", ansE)} :
          \E h1 \in {SetItem(Heap, r_df, "source_id_from_e", fromE)} :
          \E h2 \in {SetItem(h1, r_df, "source_id", SourceIdCol(df, FALSE, fromP, fromE))} :
          \E h \in {NewFrame(h2, "cs_by_source",
                             build_cs_by_source(df, FALSE, fromP, fromE))} :
             Store(h)
    /\ r_pc' = "authors"
    /\ UNCHANGED <<has_source_col, from_print, e_pc, e_idx, picks, out_pct, out_val,
                   enriched, fixed_years, cy, s_pc, df_app, app_summary, r_left, all_rows,
                   r_df>>
    /\ UNCHANGED <<vars_collect, vars_call>>

\* publications as get_article_metadata returns them
RunPool ==
    { [source_id |-> Str(<<"1", "1">>), issn_print |-> Str(Issn1234),
       issn_electronic |-> Str(<<>>), asjc_codes |-> C1402 \o <<",", " ">> \o C2700,
       year |-> Y2024, subtype |-> <<"a", "r">>, authors_count |-> Num(1)],
      [source_id |-> Str(<<>>), issn_print |-> Str(<<"1", "2", "-", "3", "4">>),
       issn_electronic |-> Str(<<"5", "6", "7", "x">>), asjc_codes |-> C2700,
       year |-> Y2022, subtype |-> <<"a", "r">>, authors_count |-> Num(3)] }

\* what AbstractRetrieval may do for one publication of the run: the two
\* failures, a conference paper, or an article with its record
RunResponses ==
    {[kind |-> k, subtype |-> "", aff_ok |-> FALSE, article |-> a] :
        k \in {"unavailable", "error"}, a \in RunPool}
    \cup {[kind |-> "doc", subtype |-> s, aff_ok |-> TRUE, article |-> a] :
             s \in {"ar", "cp"}, a \in RunPool}

\* collect_author_articles for the next author: get_author_eids answers with up
\* to two publication ids, or fails and is answered by the empty list
RunGetEids ==
    /\ r_pc = "authors"
    /\ UNCHANGED auids
    /\ r_left > 0
    /\ r_left' = r_left - 1
    /\ \/ \E n \in 0..2 : eids' = [i \in 1..n |-> i] /\ warned' = warned
       \/ eids' = <<>> /\ warned' = warned + 1
    /\ c_i' = 1
    /\ recs' = <<>>
    /\ r_pc' = "fetch"
    /\ UNCHANGED <<c_pc, calls, all_rows, r_objs, r_df>>
    /\ UNCHANGED <<vars_enrich, vars_score, vars_call>>

\* one iteration of the loop of collect_author_articles, up to its wait; an
\* exception that get_article_metadata does not catch ends the run
RunFetchItem ==
    /\ r_pc = "fetch"
    /\ UNCHANGED auids
    /\ c_i <= Len(eids)
    /\ \E resp \in RunResponses :
          LET md == get_article_metadata(eids[c_i], resp)
          IN /\ warned' = IF resp.kind = "unavailable" THEN warned + 1 ELSE warned
             /\ IF md.kind = "raise"
                THEN r_pc' = "aborted" /\ UNCHANGED <<recs, c_i>>
                ELSE /\ recs' = IF md.kind = "record" THEN Append(recs, resp.article)
                                ELSE recs
                     /\ c_i' = c_i + 1
                     /\ r_pc' = r_pc
    /\ UNCHANGED <<c_pc, eids, calls, r_left, all_rows, r_objs, r_df>>
    /\ UNCHANGED <<vars_enrich, vars_score, vars_call>>

\* the loop is over: the frame of the records is the author's, a new object; an
\* empty frame is skipped
RunCollectDone ==
    /\ r_pc = "fetch"
    /\ UNCHANGED auids
    /\ c_i > Len(eids)
    /\ \E h \in {NewFrame(Heap, "df_articles", recs)} : Store(h)
    /\ r_pc' = IF recs = <<>> THEN "authors" ELSE "enrich"
    /\ UNCHANGED <<has_source_col, from_print, e_pc, e_idx, picks, out_pct, out_val,
                   enriched, fixed_years, cy, s_pc, df_app, app_summary, r_left, all_rows,
                   r_df>>
    /\ UNCHANGED <<vars_collect, vars_call>>

\* enrich_with_citescore_sourceid_asjc on the author's frame: df is its copy and
\* takes the two key columns, the loop makes its calls of the matcher, df takes
\* the three result columns; the frame returned is the object df stands for, and
\* takes the author's id and the name get_author_name gives for it (a scalar
\* fills the column), then joins
\* all_rows; the call of AuthorRetrieval is the last entry of calls
RunEnrich ==
    /\ r_pc = "enrich"
    /\ UNCHANGED auids
    /\ \E c \in {copy(Heap, "df_articles", "df")} :
       \E keyed \in {KeyColumns(c.heap, c.obj)} :
       \E matched \in {MatchRows(keyed, c.obj, 1)} :
       \E out \in {enrich_with_citescore_sourceid_asjc(matched[c.obj], matched.cs_table,
                                                       matched.cs_by_source)} :
       \E res \in {ResultColumns(matched, c.obj, out)} :
       \E au \in {auids[Len(auids) - r_left]} :
       \E ar \in AuthorAnswers :
       \E name \in {get_author_name(au, ar)} :
       \E ided \in {SetItem(res, c.obj, "author_id", [i \in 1..Len(res[c.obj]) |-> au])} :
       \E h \in {SetItem(ided, c.obj, "author_name", [i \in 1..Len(res[c.obj]) |-> name])} :
          /\ all_rows' = Append(all_rows, h[c.obj])
          /\ calls' = Append(calls, [author_id |-> au])
          /\ Store(h)
    /\ r_pc' = "authors"
    /\ UNCHANGED <<has_source_col, from_print, e_pc, e_idx, picks, out_pct, out_val,
                   enriched, fixed_years, cy, s_pc, df_app, app_summary, r_left, r_df>>
    /\ UNCHANGED <<c_pc, eids, c_i, recs, warned, vars_call>>

\* merged = pd.concat(all_rows) once every author is done
RunMerge ==
    /\ r_pc = "authors"
    /\ UNCHANGED auids
    /\ r_left = 0
    /\ \E h \in {NewFrame(Heap, "merged", ConcatRows(all_rows))} : Store(h)
    /\ r_pc' = "score"
    /\ UNCHANGED <<has_source_col, from_print, e_pc, e_idx, picks, out_pct, out_val,
                   enriched, fixed_years, cy, s_pc, df_app, app_summary, r_left, all_rows,
                   r_df>>
    /\ UNCHANGED <<vars_collect, vars_call>>

\* build_app_sheet on the merged frame: an empty frame is answered at once;
\* otherwise tmp is its copy and takes the four derived columns, eligible is the
\* copy of a row selection of tmp and takes QC and AC, then is the copy of a row
\* selection of itself and takes the rounded columns; the function returns as
\* soon as a selection is empty
RunScore ==
    /\ r_pc = "score"
    /\ UNCHANGED auids
    /\ \E r \in {build_app_sheet(s_articles, fixed_years, cy)} :
          df_app' = r[1] /\ app_summary' = r[2]
    /\ \E c \in {copy(Heap, "merged", "tmp")} :
       \E t \in {DerivedColumns(c.heap, c.obj)} :
       \E s1 \in {NewFrame(t, "selected",
                           EligibleRows(t[c.obj], YearsOk(fixed_years, cy)))} :
       \E e \in {copy(s1, "selected", "eligible")} :
       \E w \in {WeightColumns(e.heap, e.obj)} :
       \E s2 \in {NewFrame(w, "selected", KeptRows(w[e.obj]))} :
       \E k \in {copy(s2, "selected", "eligible")} :
       \E h \in {IF s_articles = <<>> THEN Heap
                 ELSE IF s1.selected = <<>> THEN e.heap
                 ELSE IF s2.selected = <<>> THEN k.heap
                 ELSE ScoreColumns(k.heap, k.obj)} :
          Store(h)
    /\ r_pc' = "done"
    /\ UNCHANGED <<has_source_col, from_print, e_pc, e_idx, picks, out_pct, out_val,
                   enriched, fixed_years, cy, s_pc, r_left, all_rows, r_df>>
    /\ UNCHANGED <<vars_collect, vars_call>>

\* the rows of the reference tables of the runs
RunRefPool ==
    { RefRow(<<"1", "1">>, Issn1234, <<>>, {C1402, C2700}, Num(700), Num(31)),
      RefRow(<<>>, Issn1234, Issn567X, {C2700}, Num(600), Num(20)) }

\* compute_and_build after load_citescore_table
InitRun ==
    /\ has_source_col \in BOOLEAN
    /\ \E rows \in {r \in SeqsUpTo(RunRefPool, 2, 2) : r[1] # r[2]} :
          cs_table = IF has_source_col THEN LoadedTable(rows)
                     ELSE WithoutSourceCol(LoadedTable(rows))
    /\ from_print = <<>>
    /\ cs_by_source = <<>>
    /\ df_articles = <<>>
    /\ e_pc = "idle" /\ e_idx = 0 /\ picks = <<>>
    /\ out_pct = <<>> /\ out_val = <<>> /\ enriched = <<>>
    /\ s_articles = <<>>
    /\ fixed_years = {2022, 2023, 2024}
    /\ cy = 2024
    /\ s_pc = "idle"
    /\ df_app = <<>>
    /\ app_summary = [app_total |-> 0, eligibility |-> "", years |-> <<>>]
    /\ r_pc = "index"
    /\ auids \in {SubSeq(<< <<"7">>, <<"8">>, <<"9">> >>, 1, n) : n \in 0..MaxAuthors}
    /\ r_left = Len(auids)
    /\ all_rows = <<>>
    /\ r_objs = NoObjs
    /\ r_df = ""
    /\ IdleCollect
    /\ IdleCall

NextRun ==
    \/ RunIndex \/ RunBackfillPrint \/ RunBackfillE
    \/ RunGetEids \/ RunFetchItem \/ RunCollectDone
    \/ RunEnrich \/ RunMerge \/ RunScore

SpecRun == InitRun /\ [][NextRun]_vars

\* what a step of the run leaves as it was: the table always, the index once it
\* is built, the author's frame across the enrichment call and the merged frame
\* across the scoring call
FramesKept ==
    /\ cs_table' = cs_table
    /\ r_pc \notin {"index", "backfill"} => cs_by_source' = cs_by_source
    /\ r_pc = "enrich" => df_articles' = df_articles
    /\ r_pc = "score" => s_articles' = s_articles

\* C15: through a run (the index, the enrichment of any number of author
\* batches, the scoring) the reference table and, once built, the reference
\* index keep every row and value, and the frame handed to an enrichment or
\* scoring call is after the call what it was before; the results are new frames.
C15_InputsUnchanged == [][FramesKept]_vars

\* a finished run that enriched two batches from a non-empty index and scored at
\* least one publication: the callees' objects hold the columns they wrote (the
\* enriched frame its quartile, the matcher's copy its sort keys, tmp its
\* derived columns, eligible its contribution) and the caller's frames hold none
C15_Witness ==
    /\ r_pc = "done"
    /\ Len(all_rows) >= 2
    /\ cs_by_source # <<>>
    /\ df_app # <<>>
    /\ Len(s_articles) >= 2
    /\ df_articles # <<>> /\ r_objs.df # <<>>
    /\ "quartile" \in DOMAIN r_objs.df[1] /\ "quartile" \notin DOMAIN df_articles[1]
    /\ r_objs.cands_copy # <<>> /\ "_overlap" \in DOMAIN r_objs.cands_copy[1]
    /\ "_overlap" \notin DOMAIN cs_by_source[1] /\ "_overlap" \notin DOMAIN cs_table[1]
    /\ "year_i" \in DOMAIN r_objs.tmp[1] /\ "year_i" \notin DOMAIN s_articles[1]
    /\ r_objs.eligible # <<>> /\ "Contribution" \in DOMAIN r_objs.eligible[1]
    /\ "author_id" \in DOMAIN r_objs.df[1] /\ "author_id" \notin DOMAIN df_articles[1]
    /\ \E i \in 1..Len(s_articles) : s_articles[i].author_name # s_articles[i].author_id
    /\ \E i \in 1..Len(s_articles) : s_articles[i].author_name = s_articles[i].author_id

-----------------------------------------------------------------------------
(* Matching keys *)

\* publication k and row j of the reference index share a registry id that is
\* not empty
SharesRegistryId(k, j) ==
    SidOf(k) # <<>> /\ AsTypeStr(cs_by_source[j].source_id) = SidOf(k)

\* publication k and row i of the reference table share a print identifier or an
\* electronic identifier that is not empty
SharesJournalId(k, i) ==
    \/ /\ issn_key_of(df_articles[k]) # <<>>
       /\ issn_key_of(df_articles[k]) = cs_table[i].issn_key
    \/ /\ eissn_key_of(df_articles[k]) # <<>>
       /\ eissn_key_of(df_articles[k]) = cs_table[i].eissn_key

\* C16: a processed publication that was given a percentile or a score has them
\* from a reference entry with which it shares a non-empty registry id, print
\* identifier or electronic identifier; a publication without registry id whose
\* two identifiers normalise to the empty string is given nothing.
C16_EmptyKeyNeverMatches ==
    \A k \in 1..Len(out_pct) :
        (out_pct[k] # None \/ out_val[k] # None) =>
            \/ \E j \in 1..Len(cs_by_source) :
                  /\ SharesRegistryId(k, j)
                  /\ out_pct[k] = cs_by_source[j].cs_percentile
                  /\ out_val[k] = cs_by_source[j].citescore
            \/ \E i \in 1..Len(cs_table) :
                  /\ SharesJournalId(k, i)
                  /\ out_pct[k] = cs_table[i].cs_percentile
                  /\ out_val[k] = cs_table[i].citescore

=============================================================================
